---------------------------- MODULE Spec2Model ----------------------------
(* A model of cargo_mirror.py's synchronisation pass: update() walking    *)
(* the list of crate versions of the index and running download_crate()   *)
(* on each, either in the calling process (parallel = 1) or in the        *)
(* processes of a multiprocessing pool (through dl()).                    *)
(*                                                                        *)
(* A file is the sequence of the blocks written to it; a digest is the    *)
(* streaming hash of those blocks.  The cache directory is a map from     *)
(* path to file.  A path is <<name, vers, suffix>>.                       *)
EXTENDS Integers, Sequences, FiniteSets, TLC

(* ------------------------------ bounds -------------------------------- *)

\* number of crate versions listed by the index
NumCrates == 2
\* largest value of update()'s parallel argument that is tried
MaxParallel == 2
\* number of blocks of a crate's payload
BlockCount == 1
\* number of times cleanup() is run in a row
MaxCleanups == 2

(* --------------------------- files, digests --------------------------- *)

\* the value of a path that holds no file
NoFile == <<-1>>

\* hashlib.new(hkind): the state of a fresh hasher
HashNew == 0

\* the multiplier of the block hash: larger than any block plus one
HashBase == NumCrates + 2

\* hasher.update(block)
HashUpdate(h, block) == h * HashBase + block + 1

RECURSIVE HashBlocks(_, _)
\* the read loop of get_hash: the hasher h fed with the blocks of data
HashBlocks(h, data) ==
    IF data = <<>> THEN h
    ELSE HashBlocks(HashUpdate(h, Head(data)), Tail(data))

\* get_hash(fpath): the digest of a file's content
get_hash(data) == HashBlocks(HashNew, data)

(* ------------------------------ the index ----------------------------- *)

\* the payload published for crate i: BlockCount blocks
GoodPayload(i) == [k \in 1..BlockCount |-> i]

\* a payload of the same length whose last block was altered
BadPayload(i) == [k \in 1..BlockCount |-> IF k = BlockCount THEN 0 ELSE i]

\* a committed file left by an earlier version of the crate
StaleData == <<0>>

\* CrateVersion: crates 1 and 2 are two versions of one crate name
CrateVersion(i) ==
    [name |-> (i + 1) \div 2, vers |-> 2 - (i % 2), cksum |-> get_hash(GoodPayload(i))]

\* list(get_crates(index)): the records of the index, in traversal order
crates == [i \in 1..NumCrates |-> CrateVersion(i)]

CrateIds == 1..NumCrates

Suffixes == {".crate", ".crate~", ".crate~corrupted"}

AllPaths == (1..NumCrates) \X (1..2) \X Suffixes

\* path.with_suffix(suffix)
WithSuffix(path, suffix) == <<path[1], path[2], suffix>>

\* a bug: the version is left out of the file name
FilePathNoVers(crate) == <<crate.name, 1, ".crate">>

\* cache / ('%s-%s.crate' % (name, vers))
FilePath(crate) == <<crate.name, crate.vers, ".crate">>

TmpPath(crate) == WithSuffix(FilePath(crate), ".crate~")

CorruptedPath(crate) == WithSuffix(FilePath(crate), ".crate~corrupted")

PathsOf(crate) == {FilePath(crate), TmpPath(crate), CorruptedPath(crate)}

(* --------------------------- the index files -------------------------- *)

\* A line of an index file: the JSON record of crate id, or a line that
\* does not decode:
\*   "json"   not JSON: json.loads raises JSONDecodeError
\*   "field"  JSON without one of the fields: obj[...] raises KeyError
\*   "hex"    a cksum that is not hexadecimal: bytes.fromhex raises ValueError
BadKinds == {"json", "field", "hex"}

RecordLine(i) == [kind |-> "record", id |-> i]

BadLine(k) == [kind |-> k, id |-> 0]

\* no malformed line
NoBad == [kind |-> "none", before |-> 0]

\* the index has one file per crate name
FileNames == 1..((NumCrates + 1) \div 2)

RECURSIVE LinesFrom(_, _, _, _)
\* the lines of the file of crate name n, from record i on: the records
\* of listed with that name, and the malformed line bad before its record
LinesFrom(i, n, listed, bad) ==
    IF i > NumCrates THEN <<>>
    ELSE (IF bad.kind # "none" /\ bad.before = i /\ crates[i].name = n
          THEN <<BadLine(bad.kind)>> ELSE <<>>)
         \o (IF i \in listed /\ crates[i].name = n THEN <<RecordLine(i)>> ELSE <<>>)
         \o LinesFrom(i + 1, n, listed, bad)

\* an index directory: whether it is there and readable, and its files in
\* sorted order
MakeIndex(state, listed, bad) ==
    [state |-> state,
     files |-> IF state = "ok" THEN [n \in FileNames |-> LinesFrom(1, n, listed, bad)]
               ELSE <<>>]

\* CrateVersion.fromjson(line): the record, or the exception raised
fromjson(line) ==
    CASE line.kind = "record" -> [raised |-> "none", id |-> line.id]
      [] line.kind = "json" -> [raised |-> "JSONDecodeError", id |-> 0]
      [] line.kind = "field" -> [raised |-> "KeyError", id |-> 0]
      [] OTHER -> [raised |-> "ValueError", id |-> 0]

RECURSIVE get_crate_versions(_)
\* get_crate_versions(packfile): the records yielded and the exception
\* that leaves the generator.  The try is around the whole loop:
\* JSONDecodeError is logged and ends the reading of the file; any other
\* exception leaves the generator.
get_crate_versions(lines) ==
    IF lines = <<>> THEN [out |-> <<>>, raised |-> "none"]
    ELSE LET r == fromjson(Head(lines))
         IN CASE r.raised = "none" ->
                   LET rest == get_crate_versions(Tail(lines))
                   IN [out |-> <<r.id>> \o rest.out, raised |-> rest.raised]
              [] r.raised = "JSONDecodeError" -> [out |-> <<>>, raised |-> "none"]
              [] OTHER -> [out |-> <<>>, raised |-> r.raised]

RECURSIVE FilesFrom(_, _)
\* the loop of get_crates over the sorted entries, from entry n on
FilesFrom(files, n) ==
    IF n > Len(files) THEN [out |-> <<>>, raised |-> "none"]
    ELSE LET r == get_crate_versions(files[n])
         IN IF r.raised # "none" THEN r
            ELSE LET rest == FilesFrom(files, n + 1)
                 IN [out |-> r.out \o rest.out, raised |-> rest.raised]

\* get_crates(indexdir), consumed to its end by list() or set(): the
\* records it yields and the exception that leaves it; indexdir.iterdir()
\* raises when the directory is missing or cannot be read
get_crates(idx) ==
    CASE idx.state = "missing" -> [out |-> <<>>, raised |-> "FileNotFoundError"]
      [] idx.state = "unreadable" -> [out |-> <<>>, raised |-> "PermissionError"]
      [] OTHER -> FilesFrom(idx.files, 1)

(* ----------------------------- the remote ----------------------------- *)

\* what a GET of a crate's download URL does:
\*   "ok"       the published payload arrives
\*   "corrupt"  another payload arrives
\*   "urlerror" urlopen raises URLError (no connection, HTTP error status)
\*   "reset"    the response starts and the connection fails while it is read
RemoteKinds == {"ok", "corrupt", "urlerror", "reset"}

\* the blocks the response delivers
Payload(i, kind) == IF kind = "corrupt" THEN BadPayload(i) ELSE GoodPayload(i)

\* the number of blocks resp.read delivers before it raises
ResetAfter == BlockCount - 1


(* --------------------------- file operations -------------------------- *)

\* path.exists()
PathExists(dir, path) == dir[path] # NoFile

\* a bug: the stale file is left in place
UnlinkSkipped(dir, path) == dir

\* path.unlink()
Unlink(dir, path) == [dir EXCEPT ![path] = NoFile]

\* a bug: the file is copied and the source is kept
RenameKeepsSource(dir, src, dst) == [dir EXCEPT ![dst] = dir[src]]

\* src.rename(dst): dst is replaced, src is gone
Rename(dir, src, dst) == [dir EXCEPT ![dst] = dir[src], ![src] = NoFile]

\* dst.open('wb'): the file is created, or truncated when it exists
OpenWb(dir, path) == [dir EXCEPT ![path] = <<>>]

\* fdst.write(block)
Write(dir, path, block) ==
    IF PathExists(dir, path) THEN [dir EXCEPT ![path] = Append(@, block)] ELSE dir

(* ------------------------ download_crate's tests ---------------------- *)

\* a bug: the stored file is never trusted
StoredNeverOk(data, cksum) == FALSE

\* get_hash(filepath, hkind='sha256') == cksum
StoredOk(data, cksum) == get_hash(data) = cksum

\* a bug: the download is committed whatever its digest
RenameTargetUnchecked(crate, hashv) == FilePath(crate)

\* a bug: the two branches of the digest test are swapped
RenameTargetSwapped(crate, hashv) ==
    IF hashv = crate.cksum THEN CorruptedPath(crate) ELSE FilePath(crate)

\* where the finished download goes: hashv == cksum decides
RenameTarget(crate, hashv) ==
    IF hashv = crate.cksum THEN FilePath(crate) ELSE CorruptedPath(crate)

(* -------------------------------- state ------------------------------- *)

VARIABLES
    parallel,     \* update()'s parallel argument
    remote,       \* crate id -> what a GET of its URL does
    fs,           \* the cache directory: path -> file
    fs0,          \* the cache directory when update() was called
    mainpc,       \* where update() is
    exc,          \* the exception that left update(), or "none"
    interrupted,  \* the user has sent the interrupt signal
    nextTask,     \* the next crate of the list to hand out
    task,         \* process -> the crate it is in download_crate for, or 0
    wpc,          \* process -> its position in download_crate
    hasher,       \* process -> the hasher of retrieve_and_hash
    nread,        \* process -> the blocks read from the response so far
    status,       \* crate id -> how its processing stands
    netreq,       \* crate id -> the number of requests sent for it
    dispatched,   \* crate id -> the number of times it was handed out
    touched,      \* crate id -> the paths changed while processing it
    index,        \* the index directory
    refresh,      \* what the shell command of update_index_repository does
    todo,         \* update()'s list of crates, once the index is read
    refreshed,    \* update_index_repository was called
    removed       \* the paths each run of cleanup() deleted, in order

vars == <<parallel, remote, fs, fs0, mainpc, exc, interrupted, nextTask, task,
          wpc, hasher, nread, status, netreq, dispatched, touched,
          index, refresh, todo, refreshed, removed>>

\* What "cd index; git fetch origin master; git reset --hard origin/master"
\* does.  The shell returns the status of its last command:
\*   "ok"        the index is brought up to date, status 0
\*   "fetchfail" git fetch fails and git reset succeeds on the refs already
\*               there: the index stays as it was, status 0
\*   "exitfail"  git reset fails: status not 0
RefreshKinds == {"ok", "fetchfail", "exitfail"}

\* update_index_repository(index): the exception that leaves it.  A status
\* other than 0 makes check_output raise CalledProcessError; the handler
\* names CallProcessError, which is not defined, and NameError is raised.
update_index_repository(kind) == IF kind = "exitfail" THEN "NameError" ELSE "none"

\* the index every record is listed in, well formed
FullIndex == MakeIndex("ok", CrateIds, NoBad)

\* the index directories and refresh outcomes tried besides the full
\* index with a working refresh: records missing from the index, one
\* malformed line, no index directory, an index directory that cannot be
\* read, a refresh that fails
IndexScenarios ==
    {<<MakeIndex("ok", listed, NoBad), "ok">> : listed \in (SUBSET CrateIds) \ {CrateIds}}
    \cup {<<MakeIndex("ok", CrateIds, [kind |-> k, before |-> i]), "ok">> :
              k \in BadKinds, i \in CrateIds}
    \cup {<<MakeIndex("missing", {}, NoBad), "ok">>,
          <<MakeIndex("unreadable", {}, NoBad), "ok">>,
          <<FullIndex, "fetchfail">>,
          <<FullIndex, "exitfail">>}

\* process 0 is the process that called update(); the others are pool workers
Procs == 0..MaxParallel

\* the processes that run download_crate: the caller itself when
\* parallel is 1, else the workers of mp.Pool(parallel)
Workers == IF parallel = 1 THEN {0} ELSE 1..parallel

\* the states download_crate returns in
Terminal == {"up-to-date", "downloaded", "fetch-failed", "corrupt"}

\* the cache entries a crate may have when update() is called
StartKinds == {"none", "valid", "stale"}

StartFile(kinds, path) ==
    LET ids == {i \in CrateIds : path \in PathsOf(crates[i])}
    IN IF ids = {} THEN NoFile
       ELSE LET i == CHOOSE j \in ids : TRUE
            IN CASE path = FilePath(crates[i]) /\ kinds[i] = "valid" -> GoodPayload(i)
                 [] path = FilePath(crates[i]) /\ kinds[i] = "stale" -> StaleData
                 [] OTHER -> NoFile

Init ==
    /\ parallel \in 1..MaxParallel
    /\ \/ /\ index = FullIndex
          /\ refresh = "ok"
          /\ remote \in [CrateIds -> RemoteKinds]
       \/ /\ \E sc \in IndexScenarios : index = sc[1] /\ refresh = sc[2]
          /\ remote = [i \in CrateIds |-> "ok"]
    /\ todo = <<>>
    /\ refreshed = FALSE
    /\ removed = <<>>
    /\ \E kinds \in [CrateIds -> StartKinds] :
           fs = [p \in AllPaths |-> StartFile(kinds, p)]
    /\ fs0 = fs
    /\ mainpc = "start"
    /\ exc = "none"
    /\ interrupted = FALSE
    /\ nextTask = 1
    /\ task = [w \in Procs |-> 0]
    /\ wpc = [w \in Procs |-> "idle"]
    /\ hasher = [w \in Procs |-> HashNew]
    /\ nread = [w \in Procs |-> 0]
    /\ status = [i \in CrateIds |-> "pending"]
    /\ netreq = [i \in CrateIds |-> 0]
    /\ dispatched = [i \in CrateIds |-> 0]
    /\ touched = [i \in CrateIds |-> {}]

(* ------------------------------- update ------------------------------- *)

\* update() up to the start of the loop: without an index directory it
\* logs "no index" and returns; else the index is refreshed and its
\* records are listed, and with parallel # 1 the pool is started.  An
\* exception of update_index_repository or get_crates leaves update().
UpdateStart ==
    /\ mainpc = "start"
    /\ IF index.state = "missing"
       THEN /\ mainpc' = "noindex"
            /\ UNCHANGED <<exc, todo, refreshed>>
       ELSE /\ refreshed' = TRUE
            /\ IF update_index_repository(refresh) # "none"
               THEN /\ mainpc' = "raised"
                    /\ exc' = update_index_repository(refresh)
                    /\ todo' = todo
               ELSE LET r == get_crates(index)
                    IN IF r.raised # "none"
                       THEN /\ mainpc' = "raised"
                            /\ exc' = r.raised
                            /\ todo' = todo
                       ELSE /\ mainpc' = "dispatch"
                            /\ exc' = exc
                            /\ todo' = r.out
    /\ UNCHANGED <<index, refresh, removed, parallel, remote, fs, fs0, interrupted,
                   nextTask, task, wpc, hasher, nread, status, netreq, dispatched,
                   touched>>

\* for crate in crates / pool.imap_unordered(dl, dir_crates): the next
\* record of the list goes to a process that is not inside download_crate.
\* Idle pool workers are interchangeable: the lowest-numbered one stands
\* for whichever of them gets the task from the queue.
Dispatch(w) ==
    /\ mainpc = "dispatch"
    /\ w \in Workers
    /\ wpc[w] = "idle"
    /\ \A v \in Workers : v < w => wpc[v] # "idle"
    /\ nextTask <= Len(todo)
    /\ task' = [task EXCEPT ![w] = todo[nextTask]]
    /\ wpc' = [wpc EXCEPT ![w] = "exists"]
    /\ status' = [status EXCEPT ![todo[nextTask]] = "running"]
    /\ dispatched' = [dispatched EXCEPT ![todo[nextTask]] = @ + 1]
    /\ nextTask' = nextTask + 1
    /\ UNCHANGED <<index, refresh, todo, refreshed, removed, parallel, remote, fs, fs0, mainpc, exc, interrupted, hasher,
                   nread, netreq, touched>>

\* download_crate returns for process w, its record in state st
Return(w, st) ==
    /\ status' = [status EXCEPT ![task[w]] = st]
    /\ task' = [task EXCEPT ![w] = 0]
    /\ wpc' = [wpc EXCEPT ![w] = "idle"]
    /\ hasher' = [hasher EXCEPT ![w] = HashNew]
    /\ nread' = [nread EXCEPT ![w] = 0]
    /\ UNCHANGED <<mainpc, exc>>

\* an exception other than URLError leaves download_crate in process w.
\* In a pool worker dl() catches it (except Exception) and logs it.  In
\* the caller, update() evaluates "except KeyboardError", a name that is
\* not defined: NameError leaves update().
Raise(w) ==
    /\ status' = [status EXCEPT ![task[w]] = "error"]
    /\ task' = [task EXCEPT ![w] = 0]
    /\ hasher' = [hasher EXCEPT ![w] = HashNew]
    /\ nread' = [nread EXCEPT ![w] = 0]
    /\ IF w = 0
       THEN /\ wpc' = [wpc EXCEPT ![w] = "dead"]
            /\ mainpc' = "raised"
            /\ exc' = "NameError"
       ELSE /\ wpc' = [wpc EXCEPT ![w] = "idle"]
            /\ UNCHANGED <<mainpc, exc>>

\* if filepath.exists():
DlExists(w) ==
    /\ mainpc = "dispatch"
    /\ wpc[w] = "exists"
    /\ wpc' = [wpc EXCEPT ![w] =
                  IF PathExists(fs, FilePath(crates[task[w]])) THEN "hash" ELSE "urlopen"]
    /\ UNCHANGED <<index, refresh, todo, refreshed, removed, parallel, remote, fs, fs0, mainpc, exc, interrupted, nextTask,
                   task, hasher, nread, status, netreq, dispatched, touched>>

\* if get_hash(filepath) == cksum: return; else the file is to be deleted
DlHash(w) ==
    /\ mainpc = "dispatch"
    /\ wpc[w] = "hash"
    /\ LET crate == crates[task[w]]
       IN IF ~PathExists(fs, FilePath(crate))
          THEN Raise(w)
          ELSE IF StoredOk(fs[FilePath(crate)], crate.cksum)
               THEN Return(w, "up-to-date")
               ELSE /\ wpc' = [wpc EXCEPT ![w] = "unlink"]
                    /\ UNCHANGED <<mainpc, exc, task, hasher, nread, status>>
    /\ UNCHANGED <<index, refresh, todo, refreshed, removed, parallel, remote, fs, fs0, interrupted, nextTask, netreq,
                   dispatched, touched>>

\* filepath.unlink()
DlUnlink(w) ==
    /\ mainpc = "dispatch"
    /\ wpc[w] = "unlink"
    /\ LET crate == crates[task[w]]
       IN IF ~PathExists(fs, FilePath(crate))
          THEN Raise(w) /\ UNCHANGED <<fs, touched>>
          ELSE /\ fs' = Unlink(fs, FilePath(crate))
               /\ touched' = [touched EXCEPT ![task[w]] = @ \cup {FilePath(crate)}]
               /\ wpc' = [wpc EXCEPT ![w] = "urlopen"]
               /\ UNCHANGED <<mainpc, exc, task, hasher, nread, status>>
    /\ UNCHANGED <<index, refresh, todo, refreshed, removed, parallel, remote, fs0, interrupted, nextTask, netreq, dispatched>>

\* retrieve_and_hash up to the read loop: urlopen(req) sends the request
\* and raises URLError, which download_crate catches, or returns the
\* response, and then dst.open('wb') creates the temporary file
DlUrlopen(w) ==
    /\ mainpc = "dispatch"
    /\ wpc[w] = "urlopen"
    /\ LET i == task[w]
           crate == crates[i]
       IN /\ netreq' = [netreq EXCEPT ![i] = @ + 1]
          /\ IF remote[i] = "urlerror"
             THEN Return(w, "fetch-failed") /\ UNCHANGED <<fs, touched>>
             ELSE /\ fs' = OpenWb(fs, TmpPath(crate))
                  /\ touched' = [touched EXCEPT ![i] = @ \cup {TmpPath(crate)}]
                  /\ wpc' = [wpc EXCEPT ![w] = "read"]
                  /\ hasher' = [hasher EXCEPT ![w] = HashNew]
                  /\ nread' = [nread EXCEPT ![w] = 0]
                  /\ UNCHANGED <<mainpc, exc, task, status>>
    /\ UNCHANGED <<index, refresh, todo, refreshed, removed, parallel, remote, fs0, interrupted, nextTask, dispatched>>

\* one turn of retrieve_and_hash's loop: resp.read(blocksize) raises, or
\* returns a block that is written and hashed, or returns no block and
\* the loop ends with the digest
DlRead(w) ==
    /\ mainpc = "dispatch"
    /\ wpc[w] = "read"
    /\ LET i == task[w]
           crate == crates[i]
           data == Payload(i, remote[i])
       IN IF remote[i] = "reset" /\ nread[w] >= ResetAfter
          THEN Raise(w) /\ UNCHANGED <<fs>>
          ELSE IF nread[w] < Len(data)
               THEN /\ fs' = Write(fs, TmpPath(crate), data[nread[w] + 1])
                    /\ hasher' = [hasher EXCEPT ![w] = HashUpdate(@, data[nread[w] + 1])]
                    /\ nread' = [nread EXCEPT ![w] = @ + 1]
                    /\ UNCHANGED <<mainpc, exc, task, wpc, status>>
               ELSE /\ wpc' = [wpc EXCEPT ![w] = "rename"]
                    /\ UNCHANGED <<fs, mainpc, exc, task, hasher, nread, status>>
    /\ UNCHANGED <<index, refresh, todo, refreshed, removed, parallel, remote, fs0, interrupted, nextTask, netreq,
                   dispatched, touched>>

\* if hashv == cksum: filepath_tmp.rename(filepath)
\* else: filepath_tmp.rename(filepath.with_suffix('.crate~corrupted'))
DlRename(w) ==
    /\ mainpc = "dispatch"
    /\ wpc[w] = "rename"
    /\ LET i == task[w]
           crate == crates[i]
           hashv == hasher[w]
           dst == RenameTarget(crate, hashv)
       IN IF ~PathExists(fs, TmpPath(crate))
          THEN Raise(w) /\ UNCHANGED <<fs, touched>>
          ELSE /\ fs' = Rename(fs, TmpPath(crate), dst)
               /\ touched' = [touched EXCEPT ![i] = @ \cup {dst}]
               /\ Return(w, IF hashv = crate.cksum THEN "downloaded" ELSE "corrupt")
    /\ UNCHANGED <<index, refresh, todo, refreshed, removed, parallel, remote, fs0, interrupted, nextTask, netreq, dispatched>>

\* the loop of update() ends: every record was handed out and every
\* download_crate has returned; the pool is closed and joined
Finish ==
    /\ mainpc = "dispatch"
    /\ nextTask > Len(todo)
    /\ \A w \in Workers : wpc[w] = "idle"
    /\ mainpc' = "done"
    /\ UNCHANGED <<index, refresh, todo, refreshed, removed, parallel, remote, fs, fs0, exc, interrupted, nextTask, task,
                   wpc, hasher, nread, status, netreq, dispatched, touched>>

\* The user interrupts the pass: KeyboardInterrupt is raised in every
\* process of the group, wherever it is.
\*  - parallel = 1: inside download_crate the handler "except
\*    KeyboardError" raises NameError; between two calls nothing catches
\*    KeyboardInterrupt.  Either way an exception leaves update().
\*  - pool: the caller is in the imap_unordered loop, logs "update aborted
\*    by user" and returns, and the pool is terminated; a worker inside
\*    dl() leaves it through sys.exit(1).
\* The files stay as the processes left them.
Interrupt ==
    /\ mainpc = "dispatch"
    /\ ~interrupted
    /\ interrupted' = TRUE
    /\ wpc' = [w \in Procs |-> IF w \in Workers THEN "dead" ELSE wpc[w]]
    /\ task' = [w \in Procs |-> 0]
    /\ hasher' = [w \in Procs |-> HashNew]
    /\ nread' = [w \in Procs |-> 0]
    /\ status' = [i \in CrateIds |->
                     IF \E w \in Workers : task[w] = i THEN "abandoned" ELSE status[i]]
    /\ IF parallel = 1
       THEN /\ mainpc' = "raised"
            /\ exc' = IF wpc[0] = "idle" THEN "KeyboardInterrupt" ELSE "NameError"
       ELSE /\ mainpc' = "aborted"
            /\ exc' = exc
    /\ UNCHANGED <<index, refresh, todo, refreshed, removed, parallel, remote, fs, fs0, nextTask, netreq, dispatched, touched>>

Next ==
    \/ UpdateStart
    \/ \E w \in Procs : Dispatch(w)
    \/ \E w \in Procs : DlExists(w)
    \/ \E w \in Procs : DlHash(w)
    \/ \E w \in Procs : DlUnlink(w)
    \/ \E w \in Procs : DlUrlopen(w)
    \/ \E w \in Procs : DlRead(w)
    \/ \E w \in Procs : DlRename(w)
    \/ Finish
    \/ Interrupt

Spec == Init /\ [][Next]_vars

TypeOK ==
    /\ parallel \in 1..MaxParallel
    /\ mainpc \in {"start", "noindex", "dispatch", "done", "aborted", "raised",
                   "cleanup", "cleaned"}
    /\ exc \in {"none", "NameError", "KeyboardInterrupt", "KeyError", "ValueError",
                "FileNotFoundError", "PermissionError"}
    /\ refresh \in RefreshKinds
    /\ \A n \in 1..Len(todo) : todo[n] \in CrateIds
    /\ \A w \in Procs : task[w] \in 0..NumCrates
    /\ \A i \in CrateIds : status[i] \in Terminal \cup {"pending", "running", "error", "abandoned"}

(* ------------------------------- cleanup ------------------------------ *)

\* set('%s-%s.crate' % (k.name, k.vers) for k in ...): the file names of
\* the records read from the index
CrateFileNames(ids) == {FilePath(crates[ids[n]]) : n \in 1..Len(ids)}

\* directory.glob(pattern) for the patterns '*.crate', '*.crate~' and
\* '*.crate~corrupted': the files whose name ends with the suffix
Glob(dir, suffix) == {p \in AllPaths : dir[p] # NoFile /\ p[3] = suffix}

\* a bug: the function returns after its first loop when that loop has
\* removed a file
ToRemoveFirstLoopOnly(dir, names) ==
    IF Glob(dir, ".crate") \ names # {}
    THEN Glob(dir, ".crate") \ names
    ELSE Glob(dir, ".crate~") \cup Glob(dir, ".crate~corrupted")

\* the files the three loops of cleanup() unlink
ToRemove(dir, names) ==
    (Glob(dir, ".crate") \ names)
        \cup Glob(dir, ".crate~") \cup Glob(dir, ".crate~corrupted")

UnlinkAll(dir, paths) == [p \in AllPaths |-> IF p \in paths THEN NoFile ELSE dir[p]]

\* a bug: the partial and corrupted downloads are removed before the index
\* is read
cleanup_before_reading(dir, idx) ==
    LET r == get_crates(idx)
        swept == UnlinkAll(dir, Glob(dir, ".crate~") \cup Glob(dir, ".crate~corrupted"))
    IN IF r.raised # "none"
       THEN [dir |-> swept, raised |-> r.raised]
       ELSE [dir |-> UnlinkAll(dir, ToRemove(dir, CrateFileNames(r.out))), raised |-> "none"]

\* cleanup(directory): the directory it leaves and the exception that
\* leaves it.  The set of names is built from the whole index first.
cleanup(dir, idx) ==
    LET r == get_crates(idx)
    IN IF r.raised # "none"
       THEN [dir |-> dir, raised |-> r.raised]
       ELSE [dir |-> UnlinkAll(dir, ToRemove(dir, CrateFileNames(r.out))), raised |-> "none"]

\* the command "cleanup" is run, a first time or again on the same index
\* and the directory the last run left
Cleanup ==
    /\ mainpc \in {"cleanup", "cleaned"}
    /\ Len(removed) < MaxCleanups
    /\ LET r == cleanup(fs, index)
       IN /\ fs' = r.dir
          /\ exc' = r.raised
          /\ removed' = Append(removed, {p \in AllPaths : fs[p] # NoFile /\ r.dir[p] = NoFile})
    /\ fs0' = fs
    /\ mainpc' = "cleaned"
    /\ UNCHANGED <<index, refresh, todo, refreshed, parallel, remote, interrupted,
                   nextTask, task, wpc, hasher, nread, status, netreq, dispatched,
                   touched>>

\* the files a crate may have in the directory cleanup() is run on: a
\* committed file that is valid or stale, an unfinished download, a
\* quarantined download
DirKinds == [file : StartKinds, partial : BOOLEAN, corrupted : BOOLEAN]

DirFile(kinds, path) ==
    LET ids == {i \in CrateIds : path \in PathsOf(crates[i])}
    IN IF ids = {} THEN NoFile
       ELSE LET i == CHOOSE j \in ids : TRUE
            IN CASE path = FilePath(crates[i]) /\ kinds[i].file = "valid" -> GoodPayload(i)
                 [] path = FilePath(crates[i]) /\ kinds[i].file = "stale" -> StaleData
                 [] path = TmpPath(crates[i]) /\ kinds[i].partial ->
                       SubSeq(GoodPayload(i), 1, ResetAfter)
                 [] path = CorruptedPath(crates[i]) /\ kinds[i].corrupted -> BadPayload(i)
                 [] OTHER -> NoFile

\* cleanup() is about to run on a directory left by earlier passes, with
\* the index as it is now
InitCleanup ==
    /\ \E sc \in IndexScenarios \cup {<<FullIndex, "ok">>} :
           index = sc[1] /\ refresh = sc[2]
    /\ \E kinds \in [CrateIds -> DirKinds] :
           fs = [p \in AllPaths |-> DirFile(kinds, p)]
    /\ fs0 = fs
    /\ mainpc = "cleanup"
    /\ parallel = 1
    /\ remote = [i \in CrateIds |-> "ok"]
    /\ todo = <<>>
    /\ refreshed = FALSE
    /\ removed = <<>>
    /\ exc = "none"
    /\ interrupted = FALSE
    /\ nextTask = 1
    /\ task = [w \in Procs |-> 0]
    /\ wpc = [w \in Procs |-> "idle"]
    /\ hasher = [w \in Procs |-> HashNew]
    /\ nread = [w \in Procs |-> 0]
    /\ status = [i \in CrateIds |-> "pending"]
    /\ netreq = [i \in CrateIds |-> 0]
    /\ dispatched = [i \in CrateIds |-> 0]
    /\ touched = [i \in CrateIds |-> {}]

NextCleanup == Cleanup

SpecCleanup == InitCleanup /\ [][NextCleanup]_vars

(* ----------------- the sequential pass as a function ------------------ *)

\* retrieve_and_hash(url, dst): the directory it leaves, the digest it
\* returns and the exception it raises
retrieve_and_hash(dir, dst, data, kind) ==
    CASE kind = "urlerror" -> [dir |-> dir, hashv |-> HashNew, raised |-> "URLError"]
      [] kind = "reset" ->
            [dir |-> [dir EXCEPT ![dst] = SubSeq(data, 1, ResetAfter)],
             hashv |-> HashNew, raised |-> "other"]
      [] OTHER ->
            [dir |-> [dir EXCEPT ![dst] = data],
             hashv |-> HashBlocks(HashNew, data), raised |-> "none"]

\* download_crate(cache, crate) run from its first line to its last: the
\* directory it leaves and whether an exception left it
download_crate(dir, i, kind) ==
    LET crate == crates[i]
        filepath == FilePath(crate)
    IN IF PathExists(dir, filepath) /\ StoredOk(dir[filepath], crate.cksum)
       THEN [dir |-> dir, raised |-> FALSE]
       ELSE LET cleared == IF PathExists(dir, filepath) THEN Unlink(dir, filepath) ELSE dir
                got == retrieve_and_hash(cleared, TmpPath(crate), Payload(i, kind), kind)
            IN CASE got.raised = "URLError" -> [dir |-> got.dir, raised |-> FALSE]
                 [] got.raised = "other" -> [dir |-> got.dir, raised |-> TRUE]
                 [] OTHER ->
                       [dir |-> Rename(got.dir, TmpPath(crate), RenameTarget(crate, got.hashv)),
                        raised |-> FALSE]

RECURSIVE SequentialUpdate(_, _, _)
\* update(directory, parallel=1) from the i-th crate of its list on: the
\* loop calls download_crate on each crate in turn and is left by the first
\* exception
SequentialUpdate(dir, kinds, i) ==
    IF i > Len(todo) THEN dir
    ELSE LET r == download_crate(dir, todo[i], kinds[todo[i]])
         IN IF r.raised THEN r.dir ELSE SequentialUpdate(r.dir, kinds, i + 1)

\* the committed and the quarantined files of a directory
CacheView(dir) ==
    [p \in {q \in AllPaths : q[3] \in {".crate", ".crate~corrupted"}} |-> dir[p]]

\* the uninterrupted sequential pass of the model is the function above
SequentialAgrees ==
    (parallel = 1 /\ mainpc \in {"done", "raised"} /\ ~interrupted)
        => fs = SequentialUpdate(fs0, remote, 1)

(* ------------------------------- claims ------------------------------- *)

NoEntryAtStart(i) == \A p \in PathsOf(crates[i]) : fs0[p] = NoFile

ValidAtStart(i) ==
    /\ fs0[FilePath(crates[i])] # NoFile
    /\ get_hash(fs0[FilePath(crates[i])]) = crates[i].cksum

StaleAtStart(i) ==
    /\ fs0[FilePath(crates[i])] # NoFile
    /\ get_hash(fs0[FilePath(crates[i])]) # crates[i].cksum

Committed(i) ==
    /\ fs[FilePath(crates[i])] # NoFile
    /\ get_hash(fs[FilePath(crates[i])]) = crates[i].cksum

\* C1: a record with no cache entry when update() is called, whose download
\* arrives with the digest of the record: once download_crate has returned
\* for it, the file at its canonical path has the record's digest and no
\* '.crate~' file of the record is left.
C1_Theorem ==
    \A i \in CrateIds :
        (NoEntryAtStart(i) /\ remote[i] = "ok" /\ status[i] \in Terminal)
            => /\ Committed(i)
               /\ fs[TmpPath(crates[i])] = NoFile

C1_Witness ==
    /\ mainpc = "done"
    /\ \E i \in CrateIds :
          NoEntryAtStart(i) /\ remote[i] = "ok" /\ status[i] = "downloaded"

\* C2 as stated: after update() has returned, every record whose remote
\* payload does not have the record's digest has no file at its canonical
\* path and has a quarantined file.
C2_Original ==
    mainpc = "done" =>
        \A i \in CrateIds :
            remote[i] = "corrupt"
                => /\ fs[FilePath(crates[i])] = NoFile
                   /\ fs[CorruptedPath(crates[i])] # NoFile

\* C2 amended: a record whose remote payload does not have the record's
\* digest and whose committed file was absent or stale when update() was
\* called: once download_crate has returned for it, no file is at its
\* canonical path and its quarantined file exists.
C2_Amended ==
    \A i \in CrateIds :
        (remote[i] = "corrupt" /\ ~ValidAtStart(i) /\ status[i] \in Terminal)
            => /\ fs[FilePath(crates[i])] = NoFile
               /\ fs[CorruptedPath(crates[i])] # NoFile

C2_Witness ==
    /\ mainpc = "done"
    /\ \E i \in CrateIds :
          StaleAtStart(i) /\ remote[i] = "corrupt" /\ status[i] = "corrupt"
    /\ \E i \in CrateIds :
          NoEntryAtStart(i) /\ remote[i] = "corrupt" /\ status[i] = "corrupt"

\* C3: a record whose committed file has the record's digest when update()
\* is called: no request is ever sent for it and its file stays as it was,
\* whatever the value of parallel.
C3_Theorem ==
    \A i \in CrateIds :
        ValidAtStart(i)
            => /\ netreq[i] = 0
               /\ fs[FilePath(crates[i])] = fs0[FilePath(crates[i])]

C3_Witness ==
    /\ mainpc = "done"
    /\ parallel > 1
    /\ \E i \in CrateIds : ValidAtStart(i) /\ status[i] = "up-to-date"
    /\ \E i \in CrateIds : netreq[i] > 0

\* C4: a record whose committed file does not have the record's digest when
\* update() is called: the file is gone before the request is sent, and
\* when the payload that arrives has the record's digest the record ends
\* 'downloaded' with a file of that digest at its canonical path.
C4_Theorem ==
    \A i \in CrateIds :
        StaleAtStart(i)
            => /\ \A w \in Procs :
                     (task[w] = i /\ wpc[w] \in {"urlopen", "read", "rename"})
                         => fs[FilePath(crates[i])] = NoFile
               /\ netreq[i] > 0 => FilePath(crates[i]) \in touched[i]
               /\ (remote[i] = "ok" /\ status[i] \in Terminal)
                     => (status[i] = "downloaded" /\ Committed(i))

C4_Witness ==
    /\ mainpc = "done"
    /\ \E i \in CrateIds :
          /\ StaleAtStart(i)
          /\ status[i] = "downloaded"
          /\ fs[FilePath(crates[i])] # fs0[FilePath(crates[i])]

\* C5: in every state, a file the pass has put at a record's canonical path
\* has the record's digest.
C5_Theorem ==
    \A i \in CrateIds :
        LET p == FilePath(crates[i])
        IN (fs[p] # NoFile /\ (fs[p] # fs0[p] \/ p \in touched[i]))
               => get_hash(fs[p]) = crates[i].cksum

\* an interrupted pass that had committed one file and was part-way
\* through the download of another
C5_Witness ==
    /\ interrupted
    /\ \E i \in CrateIds : status[i] = "downloaded" /\ Committed(i)
    /\ \E i \in CrateIds :
          /\ status[i] = "abandoned"
          /\ fs[TmpPath(crates[i])] # NoFile
          /\ get_hash(fs[TmpPath(crates[i])]) # crates[i].cksum

\* the request for record i was sent and failed
FetchFailed(i) ==
    /\ netreq[i] > 0
    /\ remote[i] \in {"urlerror", "reset"}
    /\ status[i] # "running"

\* C6: a fetch failure for one record does not abort the batch and is not
\* retried: when a pass that was not interrupted has ended, every record
\* of the index was processed and none was requested twice, with
\* parallel = 1 as with a pool.
C6_Claim ==
    (~interrupted /\ mainpc \in {"done", "raised"} /\ \E i \in CrateIds : FetchFailed(i))
        => \A j \in CrateIds : status[j] # "pending" /\ netreq[j] <= 1

\* C7: an exception that leaves download_crate is caught for that record
\* only: it never leaves update(), with parallel = 1 as with a pool.
C7_Claim ==
    ~interrupted => \A i \in CrateIds : status[i] = "error" => exc = "none"

\* C8: a pass through the pool that has returned leaves the committed and
\* quarantined files that the sequential pass leaves from the same
\* directory, index and remote outcomes.
C8_Claim ==
    (mainpc = "done" /\ parallel > 1)
        => CacheView(fs) = CacheView(SequentialUpdate(fs0, remote, 1))

\* C9: each record is handed out at most once, two processes are never
\* inside download_crate for the same record or for records that share a
\* path, and the paths changed for a record are paths of that record and of
\* no other.
C9_Theorem ==
    /\ \A i \in CrateIds : dispatched[i] <= 1
    /\ \A v, w \in Procs :
          (v # w /\ task[v] # 0 /\ task[w] # 0)
              => /\ task[v] # task[w]
                 /\ PathsOf(crates[task[v]]) \cap PathsOf(crates[task[w]]) = {}
    /\ \A i \in CrateIds : touched[i] \subseteq PathsOf(crates[i])
    /\ \A i, j \in CrateIds : i # j => touched[i] \cap touched[j] = {}

\* two pool workers are writing their downloads at the same time
C9_Witness ==
    \E v, w \in Procs :
        /\ v # w
        /\ wpc[v] = "read" /\ wpc[w] = "read"
        /\ nread[v] > 0 /\ nread[w] > 0
        /\ touched[task[v]] # {} /\ touched[task[w]] # {}

\* C10: once the user has interrupted the pass, update() has logged
\* 'update aborted by user' and returned, and no exception has left it,
\* with parallel = 1 as with a pool.
C10_Claim ==
    interrupted => (mainpc = "aborted" /\ exc = "none")

(* --------------------- claims on cleanup and the index ---------------- *)

\* the crates that have a well-formed record line in some file of an index
IndexedIds(idx) ==
    {i \in CrateIds :
        \E n \in DOMAIN idx.files :
            \E k \in DOMAIN idx.files[n] : idx.files[n][k] = RecordLine(i)}

\* the crates of a list
ListedIds(ids) == {ids[n] : n \in 1..Len(ids)}

\* C11: after cleanup() on a directory whose index is there and readable,
\* whatever its lines are, no '*.crate~' and no '*.crate~corrupted' file is
\* left and no '*.crate' file of a (name, version) without a record in the
\* index is left.
C11_Claim ==
    (Len(removed) >= 1 /\ index.state = "ok")
        => /\ Glob(fs, ".crate~") = {}
           /\ Glob(fs, ".crate~corrupted") = {}
           /\ \A i \in CrateIds \ IndexedIds(index) : fs[FilePath(crates[i])] = NoFile

\* C12: a run of cleanup() that follows another run, with the index
\* unchanged and no sync between them, deletes nothing and leaves the
\* directory as the run before it left it.
C12_Theorem ==
    Len(removed) >= 2 => (removed[Len(removed)] = {} /\ fs = fs0)

\* the first run deleted files and kept others, the second ran after it
C12_Witness ==
    /\ Len(removed) = 2
    /\ exc = "none"
    /\ \E p \in removed[1] : p[3] = ".crate"
    /\ \E p \in removed[1] : p[3] = ".crate~"
    /\ \E p \in AllPaths : fs[p] # NoFile

\* C13: the index reader skips a line that fails to decode and goes on:
\* once update() has read a readable index, whatever the malformed line is
\* (invalid JSON, missing field, non-hex cksum), the read was not aborted
\* by it and the records listed are those of all the well-formed lines,
\* the ones after the malformed line included.
C13_Claim ==
    (refreshed /\ index.state = "ok" /\ update_index_repository(refresh) = "none")
        => /\ exc \notin {"KeyError", "ValueError"}
           /\ ListedIds(todo) = IndexedIds(index)

\* C14: with the index missing or unreadable, update() runs no index
\* refresh, sends no request and leaves every file of the directory as it
\* was.
C14_Claim ==
    index.state \in {"missing", "unreadable"}
        => /\ ~refreshed
           /\ \A i \in CrateIds : netreq[i] = 0
           /\ fs = fs0

\* C15: when the index refresh fails, in its fetch or with a non-zero exit
\* status, update() ends with an error and no record is processed: no
\* request is sent and every file of the directory is as it was.
C15_Claim ==
    (refreshed /\ refresh # "ok")
        => /\ mainpc = "raised"
           /\ \A i \in CrateIds : status[i] = "pending" /\ netreq[i] = 0
           /\ fs = fs0

\* C16: once the processing of a record whose fetch failed has ended, at
\* the start of the response or part-way through the stream, there is no
\* file at its temporary path.
C16_Claim ==
    \A i \in CrateIds :
        (FetchFailed(i) /\ status[i] \in {"fetch-failed", "error"})
            => fs[TmpPath(crates[i])] = NoFile

\* main(): the process ends with status 0 when the function it called has
\* returned (no sys.exit follows update() or cleanup()) and with status 1
\* when an exception has left that function
ExitStatus == IF exc = "none" THEN 0 ELSE 1

\* C17: the status of the run is zero after a clean pass and non-zero when
\* update() has ended through its 'no index' branch or its 'update aborted
\* by user' branch.
C17_Claim ==
    /\ mainpc = "done" => ExitStatus = 0
    /\ mainpc \in {"noindex", "aborted"} => ExitStatus # 0

\* C18: cleanup() never deletes the committed file of a (name, version)
\* that has a well-formed record in the index, even when the index also
\* holds a malformed line.
C18_Claim ==
    \A n \in 1..Len(removed) :
        \A i \in IndexedIds(index) : FilePath(crates[i]) \notin removed[n]

\* C19: cleanup() reads the whole index before it deletes anything: with
\* the index missing or unreadable it raises, and a run that raises has
\* deleted no file, committed, partial or quarantined.
C19_Theorem ==
    Len(removed) >= 1
        => /\ index.state \in {"missing", "unreadable"} => exc # "none"
           /\ exc # "none" => (fs = fs0 /\ \A n \in 1..Len(removed) : removed[n] = {})

\* cleanup() has run without an index on a directory that holds a
\* committed file, a partial download and a quarantined download
C19_Witness ==
    /\ Len(removed) >= 1
    /\ index.state = "missing"
    /\ exc = "FileNotFoundError"
    /\ Glob(fs, ".crate") # {}
    /\ Glob(fs, ".crate~") # {}
    /\ Glob(fs, ".crate~corrupted") # {}

\* C20: when a pass that was not interrupted, over an index that was
\* refreshed and read in full, has ended, every record has reached a
\* final state (up-to-date, downloaded, fetch-failed or corrupt, a fetch
\* that failed after the response started counting as failed): none is
\* left unprocessed or in progress.
C20_Claim ==
    (~interrupted /\ mainpc \in {"done", "raised"} /\ index = FullIndex /\ refresh = "ok")
        => \A i \in CrateIds : status[i] \in Terminal \cup {"error"}
============================================================================
